---- MODULE Spec2Model ----
(***************************************************************************)
(* mcp-connector: the message relay (McpProxy), the connection set-up      *)
(* (ProxyClient.setup), the authorization provider (DefaultAuthProvider)   *)
(* and the OAuth callback listener (OAuthProxyServer), as one state        *)
(* machine.  Every action is one turn of the Node.js event loop: a handler *)
(* runs from the event that starts it to its first await on real I/O.      *)
(* An await on a promise that is already settled resumes in a microtask    *)
(* of the same turn, so it does not end the action.                        *)
(***************************************************************************)
EXTENDS Integers, FiniteSets, Sequences, TLC

(***************************************************************************)
(* Bounds of the model.                                                    *)
(***************************************************************************)
MaxMsgs == 2        \* client messages read from stdin in one run
MaxStates == 2      \* OAuth state tokens issued in one run
MaxRelays == 3      \* McpProxy objects constructed in one run
MaxListeners == 3   \* OAuthProxyServer objects constructed in one run
MaxInAuth == 2      \* callback handlers suspended in finishAuth at one time
MaxCallbacks == 4   \* callback requests the listeners receive in one run
MaxCloses == 1      \* relays a transport of which closes in one run
MaxRefresh == 2     \* token refreshes the SDK performs in one run

\* Narrower bounds of the runs in which some inputs come more often and
\* others less (see Runs).
WideRelays == 2     \* relays constructed in a run with every kind of input
WideCallbacks == 2  \* callback requests in a run with every kind of input
RaceMsgs == 1       \* client messages in a run with a reconnect
RaceStates == 1     \* state tokens in a run with a reconnect
RaceCallbacks == 2  \* callback requests in a run with a reconnect
TokenStates == 1    \* state tokens in a run with token refreshes
TokenCallbacks == 1 \* callback requests in a run with token refreshes
TokenInAuth == 1    \* suspended callback handlers in such a run
MaxTicks == 3       \* clock readings after the first in a run with a clock
TimedMsgs == 1      \* client messages in a run with a clock
TimedCallbacks == 2 \* callback requests in a run with a clock
TimedInAuth == 1    \* suspended callback handlers in a run with a clock
PortMsgs == 1       \* client messages in a run with a configured port
PortStates == 1     \* state tokens in a run with a configured port
PortCallbacks == 1  \* callback requests in a run with a configured port
PortInAuth == 1     \* suspended callback handlers in such a run
TwoServerRelays == 2    \* relays in a run with two servers
TwoServerCallbacks == 1 \* callback requests in a run with two servers
TwoServerInAuth == 1    \* suspended callback handlers in such a run
MaxBindErrors == 2  \* 'address in use' errors of one listener in such a run

(***************************************************************************)
(* Program constants.                                                      *)
(***************************************************************************)
unauthRetries == 3  \* ROOT_CONFIG.unauthRetries
maxAge == 300000    \* verifyOAuthState: const maxAge (milliseconds)

\* Date.now() is read at multiples of half the maximum age of a state entry.
ClockStep == maxAge \div 2

Msgs == 1..MaxMsgs
States == 1..MaxStates
Relays == 1..MaxRelays
Listeners == 1..MaxListeners
NoMsg == 0          \* null in the parked-message slot

\* Client names are sequences of characters; the one the client declares,
\* and the suffix of line 130.
DeclaredName == <<"c">>
Marker == <<" ", "(via mcp-connector)">>
NoRelay == 0        \* undefined from proxyInstances.get
NoListener == 0     \* DefaultAuthProvider.oauthProxy == null
NoPort == 0         \* server.port undefined; no port in the client info file

\* The ports of a run: the one the operator configures (server.port), the one
\* of redirect_uris[0] in the client info file a previous run left, and the
\* ports the operating system assigns to listen(0).
ConfigPort == 3000
ClientInfoPort == 4000
FirstEphemeral == 49152
EphemeralPorts == {FirstEphemeral, FirstEphemeral + 1}
KnownPorts == {ConfigPort, ClientInfoPort}

\* Server URLs as the operator writes them in the configuration.  The first
\* is not in the form URL.toString() gives it, the second is.
ConfigUrls == {"https://a", "https://a/mcp"}

\* new URL(server.url).toString(): a URL without a path gets the path "/".
Normalize(u) == IF u = "https://a" THEN "https://a/" ELSE u

AllUrls == ConfigUrls \cup {Normalize(u) : u \in ConfigUrls}

\* TokenManager.hashUrl: SHA-256 of the string as given, no normalisation.
hashUrl(u) == <<"sha256", u>>

Hashes == {hashUrl(u) : u \in AllUrls}

\* refresh_token values a token endpoint returns; NoRefresh is its absence.
RefreshTokens == {"rt1", "rt2"}
NoRefresh == "none"
NoValue == "undefined"   \* a key the record does not have
NoTime == -1             \* no createdAt key

\* A Token Record (TokenSchema); NoToken is null from getToken and undefined
\* from tokens().  Token(rt) is what the SDK passes to saveTokens.
NoToken == [present |-> FALSE, refresh_token |-> NoRefresh,
            access_token |-> NoValue, token_type |-> NoValue,
            createdAt |-> NoTime]
Token(rt) == [present |-> TRUE, refresh_token |-> rt,
              access_token |-> "at", token_type |-> "Bearer",
              createdAt |-> NoTime]

\* The token file a previous run wrote for Token(rt).
StoredToken(rt) == [Token(rt) EXCEPT !.createdAt = 0]

\* Token files whose record lacks a key or has an empty access token.
PartialTokens ==
    {[StoredToken("rt1") EXCEPT !.access_token = ""],
     [StoredToken("rt1") EXCEPT !.access_token = NoValue],
     [StoredToken("rt1") EXCEPT !.token_type = NoValue]}

\* The errors transport.send() rejects with, by what the catch handler of
\* sendServerTransportMessage tests: an UnauthorizedError (thrown by the SDK
\* after it ran the provider's redirect), another Error whose message
\* includes "Unauthorized", and any other error.
ErrorKinds == {"UnauthorizedError", "MsgUnauthorized", "Other"}

VARIABLES
    budget,           \* the inputs the environment delivers in this run
    staticAuth,       \* hasKeyInJson(ROOT_CONFIG.headers, "Authorization")
    servers,          \* URLs of ROOT_CONFIG.servers (keyed by hashUrl(url))
    exited,           \* process.exit was called
    relay,            \* the McpProxy objects, by construction order
    nRelays,          \* McpProxy objects constructed so far
    proxyInstances,   \* AUTH_CONSTANTS.proxyInstances: hash -> relay
    started,          \* servers for which main() has called setup()
    creating,         \* per URL, setup() calls suspended in the create branch
    pendingReplay,    \* the setup() suspended at await startProxyServer()
    closeCalls,       \* per relay and side, close() calls the relay has made
    closeNotified,    \* per relay, the sides whose transport has closed
    nextMsg,          \* client messages read so far
    clientName,       \* per message, params.clientInfo.name of the message object
    inflight,         \* sends issued on the remote transport, not settled
    sentCount,        \* per message, send() calls on a remote transport
    replays,          \* per relay and message, replay sends since the
                      \* message was last parked in the relay (2: two or more)
    attempts,         \* per relay and message, send() calls since a send of
                      \* the relay last resolved
    globalStateStore, \* AUTH_CONSTANTS.globalStateStore (in-flight states)
    globalStateStoreCompleted, \* AUTH_CONSTANTS.globalStateStoreCompleted
    stateUrl,         \* per state token, the url recorded with it
    stateTimestamp,   \* per state token, the timestamp recorded with it
    now,              \* Date.now()
    nextState,        \* state tokens issued so far
    inAuth,           \* callback handlers suspended in finishAuth
    finishCalls,      \* per state token, finishAuth invocations
    emits,            \* per state token, oauth-success events emitted
    nCallbacks,       \* callback requests received so far
    oauthProxy,       \* DefaultAuthProvider.oauthProxy
    listener,         \* the OAuthProxyServer objects, by construction order
    nListeners,       \* OAuthProxyServer objects constructed so far
    tokenStore,       \* the stored Token Record per (normalised) URL
    nRefresh,         \* token refreshes performed so far
    sameReturns,      \* per URL, the saveTokens calls in a row whose refresh
                      \* token was the stored one, since a send last
                      \* resolved: 0, 1, or 2 for two and more
    last              \* what the last handler did

cfgVars == <<budget, staticAuth, servers>>
relayVars == <<relay, nRelays, proxyInstances, started, creating, pendingReplay>>
closeVars == <<closeCalls, closeNotified>>
sendVars == <<nextMsg, clientName, inflight, sentCount, attempts, replays>>
stateVars == <<globalStateStore, globalStateStoreCompleted, stateUrl,
               stateTimestamp, nextState>>
cbVars == <<inAuth, finishCalls, emits, nCallbacks>>
lsnVars == <<oauthProxy, listener, nListeners>>
tokVars == <<tokenStore, nRefresh, sameReturns>>
vars == <<cfgVars, exited, relayVars, closeVars, sendVars, stateVars, cbVars, lsnVars,
          tokVars, now, last>>

\* What a handler did: the relay, message and state token it worked on, the
\* page it answered with, and (for a settled send) the counters it found.
NoEvent == [op |-> "none", relay |-> NoRelay, msg |-> NoMsg, state |-> 0,
            page |-> "none", retry |-> 0, refreshRetry |-> 0,
            saved |-> FALSE, port |-> NoPort, tokens |-> NoToken]
Event(op, r, m, s, page) ==
    [op |-> op, relay |-> r, msg |-> m, state |-> s, page |-> page,
     retry |-> 0, refreshRetry |-> 0, saved |-> FALSE, port |-> NoPort,
     tokens |-> NoToken]

Sides == {"client", "server"}
Other(side) == IF side = "client" THEN "server" ELSE "client"

NoReplay == [relay |-> NoRelay, msg |-> NoMsg, listener |-> NoListener]

NoRelayObj ==
    [exists |-> FALSE, url |-> "", retry |-> 0, refreshRetry |-> 0,
     unauthMsg |-> NoMsg, transportToClientClosed |-> FALSE,
     transportToServerClosed |-> FALSE, authPort |-> NoPort]

\* new McpProxy({...url...}): the field initialisers of the class.  authPort
\* is auth.port, the port of the provider's redirect URL; SetupRegister
\* sets it.
NewMcpProxy(u) ==
    [exists |-> TRUE, url |-> u, retry |-> 0, refreshRetry |-> 0,
     unauthMsg |-> NoMsg, transportToClientClosed |-> FALSE,
     transportToServerClosed |-> FALSE, authPort |-> NoPort]

\* shutdownTimeout: the timer of resetShutdownTimer is set.  listens: the
\* server.listen() calls made for the listener.  port: options.port.
NoListenerObj ==
    [phase |-> "none", owner |-> NoRelay, shutdownTimeout |-> FALSE,
     listens |-> 0, port |-> NoPort]

\* What the environment delivers in one run: how many inputs of each kind,
\* whether callbacks and token exchanges can fail (faults), which refresh
\* tokens a code exchange grants, and what the run starts from (the headers
\* and servers of the configuration, the token file a previous run left).
Run(msgs, states, relays, listeners, handlers, callbacks, closes, refreshes,
    faults, grants, static, urls, stored) ==
    [msgs |-> msgs, states |-> states, relays |-> relays,
     listeners |-> listeners, inAuth |-> handlers, callbacks |-> callbacks,
     closes |-> closes, refreshes |-> refreshes, faults |-> faults,
     grants |-> grants, static |-> static, urls |-> urls, stored |-> stored,
     ticks |-> 0, port |-> NoPort, bindErrors |-> 0, initialize |-> {},
     clientInfoPorts |-> {NoPort}, boundPorts |-> {{}},
     ephemeral |-> {FirstEphemeral}]

\* Every kind of input, few of each.
WideRun ==
    Run(MaxMsgs, MaxStates, WideRelays, MaxListeners, MaxInAuth, WideCallbacks,
        MaxCloses, 0, TRUE, {NoRefresh}, BOOLEAN,
        {{"https://a"}, {"https://a/mcp"}}, {NoToken})

\* Many authorizations on one relay, none of which fails; the first
\* message of the client is its initialize request.
RetryRun ==
    [Run(MaxMsgs, MaxStates, 1, MaxListeners, MaxInAuth, MaxCallbacks,
         0, 0, FALSE, {NoRefresh}, {FALSE}, {{"https://a/mcp"}}, {NoToken})
     EXCEPT !.initialize = {1}]

\* A reconnect: the relay closes while authorizations and token refreshes
\* are under way.
RaceRun ==
    Run(RaceMsgs, RaceStates, MaxRelays, 1, MaxInAuth, RaceCallbacks,
        MaxCloses, MaxRefresh, FALSE, {NoRefresh, "rt1"}, {FALSE},
        {{"https://a/mcp"}}, {NoToken, StoredToken("rt1")})

\* Token refreshes, with or without a token file from a previous run.
TokenRun ==
    Run(MaxMsgs, TokenStates, 1, 1, TokenInAuth, TokenCallbacks,
        0, MaxRefresh, FALSE, {NoRefresh, "rt1", "rt2"}, {FALSE},
        {{"https://a/mcp"}},
        {NoToken, StoredToken("rt1")} \cup PartialTokens)

\* Time passes: state entries age while callbacks come, some of them bad.
TimedRun ==
    [Run(TimedMsgs, MaxStates, 1, MaxListeners, TimedInAuth, TimedCallbacks,
         0, 0, TRUE, {NoRefresh}, {FALSE}, {{"https://a/mcp"}}, {NoToken})
     EXCEPT !.ticks = MaxTicks]

\* The operator has configured a callback port for the server, and ports
\* the listener tries to bind are in use.
PortRun ==
    [Run(PortMsgs, PortStates, 1, 1, PortInAuth, PortCallbacks,
         0, 0, FALSE, {NoRefresh}, {FALSE}, {{"https://a/mcp"}}, {NoToken})
     EXCEPT !.port = ConfigPort, !.bindErrors = MaxBindErrors,
            !.initialize = {1},
            !.clientInfoPorts = {NoPort, ClientInfoPort},
            !.boundPorts = SUBSET KnownPorts,
            !.ephemeral = EphemeralPorts]

\* The same without a configured port.
RecordedPortRun == [PortRun EXCEPT !.port = NoPort]

\* Two servers are configured; each gets its relay and its provider, and
\* they share the listener.
TwoServerRun ==
    Run(MaxMsgs, MaxStates, TwoServerRelays, 1, TwoServerInAuth,
        TwoServerCallbacks, 0, 0, FALSE, {NoRefresh}, {FALSE}, {ConfigUrls},
        {NoToken})

Runs == {WideRun, RetryRun, RaceRun, TokenRun, TimedRun, PortRun,
         RecordedPortRun, TwoServerRun}

Init ==
    /\ budget \in Runs
    /\ staticAuth \in budget.static
    /\ servers \in budget.urls
    /\ exited = FALSE
    /\ relay = [r \in Relays |-> NoRelayObj]
    /\ nRelays = 0
    /\ proxyInstances = [h \in Hashes |-> NoRelay]
    /\ started = {}
    /\ creating = [u \in ConfigUrls |-> 0]
    /\ pendingReplay = NoReplay
    /\ closeCalls = [r \in Relays |-> [side \in Sides |-> 0]]
    /\ closeNotified = [r \in Relays |-> {}]
    /\ nextMsg = 0
    /\ clientName = [m \in Msgs |-> DeclaredName]
    /\ inflight = [r \in Relays |-> [m \in Msgs |-> 0]]
    /\ sentCount = [m \in Msgs |-> 0]
    /\ attempts = [r \in Relays |-> [m \in Msgs |-> 0]]
    /\ replays = [r \in Relays |-> [m \in Msgs |-> 0]]
    /\ globalStateStore = {}
    /\ globalStateStoreCompleted = {}
    /\ stateUrl = [s \in States |-> ""]
    /\ stateTimestamp = [s \in States |-> 0]
    /\ now = 0
    /\ nextState = 0
    /\ inAuth = [s \in States |-> [l \in Listeners |-> 0]]
    /\ finishCalls = [s \in States |-> 0]
    /\ emits = [s \in States |-> 0]
    /\ nCallbacks = 0
    /\ oauthProxy = NoListener
    /\ listener = [l \in Listeners |-> NoListenerObj]
    /\ nListeners = 0
    /\ \E tok \in budget.stored :
          tokenStore = [u \in AllUrls |->
              IF \E c \in servers : u = Normalize(c) THEN tok ELSE NoToken]
    /\ nRefresh = 0
    /\ sameReturns = [u \in AllUrls |-> 0]
    /\ last = NoEvent

(***************************************************************************)
(* McpProxy (src/src/proxy/mcp-proxy.ts)                                   *)
(***************************************************************************)

\* The method of client message m: the requests of budget.initialize are
\* initialize requests with params.clientInfo, the others are other requests.
Method(m) == IF m \in budget.initialize THEN "initialize" ELSE "tools/call"

\* An onmessage handler that forwards every message as it came.
onmessageNameKept(method, name) == name

\* transportToClient.onmessage, lines 127-131: the client name of an
\* initialize request gets the suffix; the message object is changed in
\* place, and it is this object that is sent, parked and replayed.
onmessageName(method, name) ==
    IF method = "initialize" THEN name \o Marker ELSE name

\* The test of the catch handler: error instanceof UnauthorizedError ||
\* error.message.includes("Unauthorized").
IsAuthorizationError(kind) == kind \in {"UnauthorizedError", "MsgUnauthorized"}

\* A catch handler without the static-header test.
NoStaticAuthorizationTest == FALSE

\* hasKeyInJson(ROOT_CONFIG.headers, "Authorization")
hasStaticAuthorization == staticAuth

\* A .then handler that resets the retry counter alone.
OnSendResolvedRetryOnly(rel) == [rel EXCEPT !.retry = 0]

\* .then(() => ((this.retry = 0), (this.refreshRetry = 0)))
OnSendResolved(rel) == [rel EXCEPT !.retry = 0, !.refreshRetry = 0]

\* A catch handler that counts the failure and parks nothing.
OnUnauthorizedCountsOnly(rel, m) == [rel EXCEPT !.retry = @ + 1]

\* The catch handler past the static-header test: this.retry++ (the test
\* around it only guards a log line), then this.unauthMsg = message.
OnUnauthorized(rel, m) == [rel EXCEPT !.retry = @ + 1, !.unauthMsg = m]

\* validateRefTokenUnauth: whether it calls tokenManager.removeToken(url).
validateRemovesToken(rel) == rel.refreshRetry > 0

\* A validateRefTokenUnauth whose increment is the else branch of the test.
validateRefTokenUnauthElse(rel) ==
    [rel EXCEPT !.refreshRetry = IF @ > 0 THEN 0 ELSE @ + 1]

\* A validateRefTokenUnauth that resets the retry counter as well.
validateRefTokenUnauthBoth(rel) ==
    [rel EXCEPT !.refreshRetry = (IF @ > 0 THEN 0 ELSE @) + 1, !.retry = 0]

\* validateRefTokenUnauth: the counter on return.
validateRefTokenUnauth(rel) ==
    [rel EXCEPT !.refreshRetry = (IF @ > 0 THEN 0 ELSE @) + 1]

\* An onclose handler without the flag test.
OtherClosedNever(rel, side) == FALSE

\* The flag test of an onclose handler (lines 199 and 215).
OtherClosed(rel, side) ==
    IF side = "client" THEN rel.transportToServerClosed
    ELSE rel.transportToClientClosed

\* An onclose handler that leaves the parked message where it is.
OnCloseKeepsParked(rel, side) ==
    IF OtherClosed(rel, side) THEN rel
    ELSE IF side = "client" THEN [rel EXCEPT !.transportToClientClosed = TRUE]
    ELSE [rel EXCEPT !.transportToServerClosed = TRUE]

\* The onclose handler of either transport: the side that closes first sets
\* its flag and closes the other side, whose onclose handler then returns at
\* the flag test.  Both run proxyInstances.delete and unauthMsg = null.
OnClose(rel, side) ==
    IF OtherClosed(rel, side)
    THEN [rel EXCEPT !.unauthMsg = NoMsg]
    ELSE IF side = "client"
    THEN [rel EXCEPT !.unauthMsg = NoMsg, !.transportToClientClosed = TRUE]
    ELSE [rel EXCEPT !.unauthMsg = NoMsg, !.transportToServerClosed = TRUE]

\* A transport's onclose runs on relay rel, which has made calls[s] close()
\* calls on side s so far.  A handler that passes the flag test calls close()
\* on the other transport, and that close() runs the other transport's
\* onclose before it returns.
CloseNotification(rel, calls, side) ==
    LET r1 == OnClose(rel, side)
        c1 == [calls EXCEPT ![Other(side)] = @ + 1]
        r2 == OnClose(r1, Other(side))
        c2 == [c1 EXCEPT ![side] = @ + 1]
    IN IF OtherClosed(rel, side) THEN [rel |-> r1, calls |-> calls]
       ELSE IF OtherClosed(r1, Other(side)) THEN [rel |-> r2, calls |-> c1]
       ELSE [rel |-> OnClose(r2, side), calls |-> c2]

IsClosed(rel) == rel.transportToClientClosed \/ rel.transportToServerClosed

\* A Relay Instance exists from its construction until a transport closes.
LiveRelays(u) ==
    {r \in Relays : relay[r].exists /\ relay[r].url = u /\ ~IsClosed(relay[r])}

\* transportToServer.send(message) is called: one more send in flight.
SendIssued(inf, r, m) == [inf EXCEPT ![r][m] = @ + 1]
SendSettled(inf, r, m) == [inf EXCEPT ![r][m] = @ - 1]

\* setup() calls sendServerTransportMessage(pendingMsg): one more replay of
\* the message since it was parked.
ReplayIssued(rep, r, m) == [rep EXCEPT ![r][m] = IF @ = 0 THEN 1 ELSE 2]

(***************************************************************************)
(* DefaultAuthProvider (src/unnamed/part_002)                              *)
(***************************************************************************)

\* saveTokens, lines 217-222: the incoming refresh token is the stored one.
SameRefreshToken(stored, tokens) ==
    /\ stored.present
    /\ stored.refresh_token # NoRefresh
    /\ tokens.refresh_token # NoRefresh
    /\ stored.refresh_token = tokens.refresh_token

\* tokens() of the provider, lines 199-208: the record without createdAt when access_token
\* and token_type are strings, else undefined.
getStoredTokens(stored) ==
    IF /\ stored.present
       /\ stored.access_token # NoValue
       /\ stored.token_type # NoValue
    THEN [stored EXCEPT !.createdAt = NoTime]
    ELSE NoToken

\* tokenManager.saveToken: the record written, tokenDetails with
\* createdAt = Date.now().
saveToken(tokenDetails) == [tokenDetails EXCEPT !.createdAt = now]

\* saveTokens: the relay objects on return.  u is this.baseUrl.toString().
saveTokensRelay(rl, pi, store, u, tokens) ==
    LET r == pi[hashUrl(u)] IN
    IF SameRefreshToken(store[u], tokens) /\ r # NoRelay
    THEN [rl EXCEPT ![r] = validateRefTokenUnauth(rl[r])]
    ELSE rl

\* saveTokens: the count of calls in a row that brought the stored refresh
\* token.
saveTokensReturns(count, store, u, tokens) ==
    IF SameRefreshToken(store[u], tokens)
    THEN [count EXCEPT ![u] = IF @ = 0 THEN 1 ELSE 2]
    ELSE [count EXCEPT ![u] = 0]

\* A saveTokens that calls tokenManager.saveToken whatever the counter.
saveTokensWritesAlways(rl, pi, store, u, tokens) == TRUE

\* saveTokens: whether it calls tokenManager.saveToken (lines 231-236).
saveTokensWrites(rl, pi, store, u, tokens) ==
    LET r == pi[hashUrl(u)]
        after == saveTokensRelay(rl, pi, store, u, tokens)
    IN  SameRefreshToken(store[u], tokens) =>
            (r # NoRelay /\ after[r].refreshRetry = 0)

\* saveTokens: the token store on return.
saveTokensStore(rl, pi, store, u, tokens) ==
    LET r == pi[hashUrl(u)]
        removed == IF /\ SameRefreshToken(store[u], tokens)
                      /\ r # NoRelay
                      /\ validateRemovesToken(rl[r])
                   THEN [store EXCEPT ![u] = NoToken] ELSE store
    IN  IF saveTokensWrites(rl, pi, store, u, tokens)
        THEN [removed EXCEPT ![u] = saveToken(tokens)]
        ELSE removed

\* isAuthPortAvailable: a connection to the port on 127.0.0.1 is refused.
\* bound is the set of ports something listens on.
isAuthPortAvailable(port, bound) == port \notin bound

\* DefaultAuthProvider.create, lines 69-113: instance.port.  The client info
\* file is read only in the else branch of the test of server.port.
\* ephemeral is what getAuthAvailablePort() resolves with.
createPort(staticConfigPort, clientInfoPort, bound, ephemeral) ==
    IF staticConfigPort # NoPort
    THEN IF isAuthPortAvailable(staticConfigPort, bound)
         THEN staticConfigPort ELSE ephemeral
    ELSE IF clientInfoPort # NoPort /\ isAuthPortAvailable(clientInfoPort, bound)
    THEN clientInfoPort
    ELSE ephemeral

\* verifyOAuthState, line 415: now - stateData.timestamp > maxAge.
StateExpired(s) == now - stateTimestamp[s] > maxAge

\* verifyOAuthState without the age test of line 415.
verifyOAuthStateAnyAge(s) == s \in globalStateStore

\* verifyOAuthState: what it returns.
verifyOAuthState(s) == s \in globalStateStore /\ ~StateExpired(s)

\* verifyOAuthState without the delete of line 420.
verifyOAuthStateStoreKeeps(s) == globalStateStore

\* verifyOAuthState: the in-flight registry on return (line 420 deletes an
\* entry found expired).
verifyOAuthStateStore(s) ==
    IF s \in globalStateStore /\ StateExpired(s)
    THEN globalStateStore \ {s} ELSE globalStateStore

(***************************************************************************)
(* ProxyClient.setup (src/src/constants/enum.ts)                           *)
(***************************************************************************)

\* Which way setup() goes for the server url u, read before its first await.
SetupBranch(u, rl, pi, proxy) ==
    LET r == pi[hashUrl(u)] IN
    IF r = NoRelay THEN "create"
    ELSE IF rl[r].unauthMsg = NoMsg THEN "nothing"
    ELSE IF rl[r].retry >= unauthRetries THEN "exit"
    ELSE IF proxy = NoListener THEN "suspend"
    ELSE "replay"

\* A replay that leaves the parked slot as it is.
ReplayKeeps(rel) == rel

\* Lines 71-72: sendServerTransportMessage(pendingMsg), then unauthMsg = null.
ReplayClears(rel) == [rel EXCEPT !.unauthMsg = NoMsg]

\* startProxyServer without the presence check of line 349.
StartProxyServerAlways(owner) ==
    /\ nListeners < budget.listeners
    /\ nListeners' = nListeners + 1
    /\ oauthProxy' = nListeners + 1
    /\ listener' = [listener EXCEPT ![nListeners + 1] =
           [phase |-> "starting", owner |-> owner,
            shutdownTimeout |-> FALSE, listens |-> 1,
            port |-> relay[owner].authPort]]

\* startProxyServer, lines 349-355: create the shared listener if absent.
\* The listener is bound later (ListenDone).
StartProxyServer(owner) ==
    IF oauthProxy = NoListener
    THEN /\ nListeners < budget.listeners
         /\ nListeners' = nListeners + 1
         /\ oauthProxy' = nListeners + 1
         /\ listener' = [listener EXCEPT ![nListeners + 1] =
                [phase |-> "starting", owner |-> owner,
                 shutdownTimeout |-> FALSE, listens |-> 1,
                 port |-> relay[owner].authPort]]
    ELSE UNCHANGED lsnVars

\* setup() for the configured url u, up to its first await on real I/O, run
\* on the relay objects rl.  evt is what the caller's handler reports.
Setup(u, rl, evt) ==
    LET r == proxyInstances[hashUrl(u)]
        m == rl[r].unauthMsg
        branch == SetupBranch(u, rl, proxyInstances, oauthProxy)
    IN
    /\ UNCHANGED <<nRelays, proxyInstances, nextMsg, clientName>>
    /\ CASE branch = "create" ->
              /\ creating' = [creating EXCEPT ![u] = @ + 1]
              /\ relay' = rl
              /\ last' = evt
              /\ UNCHANGED <<exited, pendingReplay, inflight, sentCount,
                             attempts, replays, lsnVars>>
         [] branch = "nothing" ->
              /\ relay' = rl
              /\ last' = evt
              /\ UNCHANGED <<exited, creating, pendingReplay, inflight,
                             sentCount, attempts, replays,
                             lsnVars>>
         [] branch = "exit" ->
              /\ exited' = TRUE
              /\ relay' = rl
              /\ last' = [evt EXCEPT !.op = "exit-retries", !.relay = r,
                                     !.msg = m]
              /\ UNCHANGED <<creating, pendingReplay, inflight, sentCount,
                             attempts, replays, lsnVars>>
         [] branch = "suspend" ->
              /\ StartProxyServer(r)
              /\ pendingReplay' = [relay |-> r, msg |-> m,
                                   listener |-> nListeners + 1]
              /\ relay' = rl
              /\ last' = [evt EXCEPT !.op = "replay-suspended", !.relay = r,
                                     !.msg = m]
              /\ UNCHANGED <<exited, creating, inflight, sentCount, attempts,
                             replays>>
         [] branch = "replay" ->
              /\ inflight' = SendIssued(inflight, r, m)
              /\ sentCount' = [sentCount EXCEPT ![m] = @ + 1]
              /\ attempts' = [attempts EXCEPT ![r][m] = @ + 1]
              /\ replays' = ReplayIssued(replays, r, m)
              /\ relay' = [rl EXCEPT ![r] = ReplayClears(rl[r])]
              /\ last' = [evt EXCEPT !.op = "replay", !.relay = r, !.msg = m]
              /\ UNCHANGED <<exited, creating, pendingReplay, lsnVars>>

(***************************************************************************)
(* Actions: start-up and the relay                                         *)
(***************************************************************************)

\* main(): clientInstance.setup() for a configured server.
Main(u) ==
    /\ ~exited
    /\ u \in servers
    /\ u \notin started
    /\ started' = started \cup {u}
    /\ Setup(u, relay, Event("main", NoRelay, NoMsg, 0, "none"))
    /\ UNCHANGED <<cfgVars, now, closeVars, stateVars, cbVars, tokVars>>

\* setup(), create branch, resumed after createAuthProvider() and
\* clientTransport.start(): the new relay is registered under the hash of
\* the url, whatever is registered there by now; stdin is read from here on.
\* clientInfoPort, bound and ephemeral are what createAuthProvider() finds:
\* the port in the client info file, the ports in use, and the port the
\* operating system would assign.
SetupRegister(u, clientInfoPort, bound, ephemeral) ==
    /\ ~exited
    /\ creating[u] > 0
    /\ nRelays < budget.relays
    /\ clientInfoPort \in budget.clientInfoPorts
    /\ bound \in budget.boundPorts
    /\ ephemeral \in budget.ephemeral \ bound
    /\ creating' = [creating EXCEPT ![u] = @ - 1]
    /\ nRelays' = nRelays + 1
    /\ relay' = [relay EXCEPT ![nRelays + 1] =
           [NewMcpProxy(u) EXCEPT !.authPort =
                createPort(budget.port, clientInfoPort, bound, ephemeral)]]
    /\ proxyInstances' = [proxyInstances EXCEPT ![hashUrl(u)] = nRelays + 1]
    /\ last' = [Event("register", nRelays + 1, NoMsg, 0, "none") EXCEPT
                    !.port = createPort(budget.port, clientInfoPort, bound,
                                        ephemeral)]
    /\ UNCHANGED <<cfgVars, now, closeVars, exited, started, pendingReplay, sendVars,
                   stateVars, cbVars, lsnVars, tokVars>>

\* transportToClient.onmessage: a message from the client is sent on.
ClientMessage(r) ==
    /\ ~exited
    /\ relay[r].exists
    /\ ~IsClosed(relay[r])
    /\ nextMsg < budget.msgs
    /\ nextMsg' = nextMsg + 1
    /\ clientName' = [clientName EXCEPT ![nextMsg + 1] =
                          onmessageName(Method(nextMsg + 1), @)]
    /\ inflight' = SendIssued(inflight, r, nextMsg + 1)
    /\ sentCount' = [sentCount EXCEPT ![nextMsg + 1] = @ + 1]
    /\ attempts' = [attempts EXCEPT ![r][nextMsg + 1] = @ + 1]
    /\ UNCHANGED replays
    /\ last' = [Event("send", r, nextMsg + 1, 0, "none") EXCEPT
                    !.tokens =
                        getStoredTokens(tokenStore[Normalize(relay[r].url)])]
    /\ UNCHANGED <<cfgVars, now, closeVars, exited, relayVars, stateVars, cbVars, lsnVars,
                   tokVars>>

\* The send resolves: the .then handler.
SendResolved(r, m) ==
    /\ ~exited
    /\ inflight[r][m] > 0
    /\ inflight' = SendSettled(inflight, r, m)
    /\ relay' = [relay EXCEPT ![r] = OnSendResolved(relay[r])]
    /\ attempts' = [attempts EXCEPT ![r] = [x \in Msgs |-> 0]]
    /\ UNCHANGED replays
    /\ last' = [Event("resolved", r, m, 0, "none") EXCEPT
                    !.retry = relay[r].retry,
                    !.refreshRetry = relay[r].refreshRetry]
    /\ sameReturns' = [sameReturns EXCEPT ![Normalize(relay[r].url)] = 0]
    /\ UNCHANGED <<cfgVars, now, closeVars, exited, nRelays, proxyInstances, started, creating,
                   pendingReplay, nextMsg, clientName, sentCount, stateVars, cbVars,
                   lsnVars, tokenStore, nRefresh>>

\* The send rejects: what the SDK did before it threw, then the catch handler.
\* An UnauthorizedError comes out of the SDK's auth(): it has called the
\* provider's state() and redirectToAuthorization(), which calls
\* startProxyServer() without awaiting it.
SendRejected(r, m, kind) ==
    /\ ~exited
    /\ inflight[r][m] > 0
    /\ kind = "UnauthorizedError" => ~staticAuth /\ nextState < budget.states
    /\ inflight' = SendSettled(inflight, r, m)
    /\ IF kind = "UnauthorizedError"
       THEN /\ nextState' = nextState + 1
            /\ globalStateStore' = globalStateStore \cup {nextState + 1}
            /\ stateUrl' = [stateUrl EXCEPT ![nextState + 1] =
                                Normalize(relay[r].url)]
            /\ stateTimestamp' = [stateTimestamp EXCEPT ![nextState + 1] = now]
            /\ StartProxyServer(r)
            /\ UNCHANGED globalStateStoreCompleted
       ELSE UNCHANGED <<stateVars, lsnVars>>
    /\ IF IsAuthorizationError(kind)
       THEN IF hasStaticAuthorization
            THEN /\ exited' = TRUE
                 /\ last' = Event("exit-static", r, m, 0, "none")
                 /\ UNCHANGED <<relay, replays>>
            ELSE /\ relay' = [relay EXCEPT ![r] = OnUnauthorized(relay[r], m)]
                 /\ replays' = [replays EXCEPT ![r][m] = 0]
                 /\ last' = Event("unauthorized", r, m, 0, "none")
                 /\ UNCHANGED exited
       ELSE /\ last' = Event("server-error", r, m, 0, "none")
            /\ UNCHANGED <<exited, relay, replays>>
    /\ UNCHANGED <<cfgVars, now, closeVars, nRelays, proxyInstances, started, creating,
                   pendingReplay, nextMsg, clientName, sentCount, attempts, cbVars,
                   tokVars>>

\* While a send is in flight the SDK answers a 401 by refreshing the stored
\* token and calls saveTokens with what the token endpoint returned; the
\* send stays in flight (the SDK sends the message again itself).
SdkRefreshTokens(r, m, rt) ==
    LET u == Normalize(relay[r].url) IN
    /\ ~exited
    /\ ~staticAuth
    /\ inflight[r][m] > 0
    /\ nRefresh < budget.refreshes
    /\ getStoredTokens(tokenStore[u]).refresh_token # NoRefresh
    /\ nRefresh' = nRefresh + 1
    /\ relay' = saveTokensRelay(relay, proxyInstances, tokenStore, u, Token(rt))
    /\ tokenStore' =
           saveTokensStore(relay, proxyInstances, tokenStore, u, Token(rt))
    /\ sameReturns' = saveTokensReturns(sameReturns, tokenStore, u, Token(rt))
    /\ last' = [Event("saveTokens", r, m, 0, "none") EXCEPT !.saved =
           saveTokensWrites(relay, proxyInstances, tokenStore, u, Token(rt))]
    /\ UNCHANGED <<cfgVars, now, closeVars, exited, nRelays, proxyInstances, started, creating,
                   pendingReplay, sendVars, stateVars, cbVars, lsnVars>>

\* The transport of one side of relay r closes and runs its onclose handler.
\* Each transport closes of its own accord once at most; the close() calls of
\* the relay and their notifications are part of the handler that makes them.
TransportOnClose(r, side) ==
    LET n == CloseNotification(relay[r], closeCalls[r], side) IN
    /\ ~exited
    /\ relay[r].exists
    /\ side \notin closeNotified[r]
    /\ \/ IsClosed(relay[r])
       \/ Cardinality({x \in Relays : IsClosed(relay[x])}) < budget.closes
    /\ proxyInstances' = [proxyInstances EXCEPT ![hashUrl(relay[r].url)] = NoRelay]
    /\ relay' = [relay EXCEPT ![r] = n.rel]
    /\ closeCalls' = [closeCalls EXCEPT ![r] = n.calls]
    /\ closeNotified' = [closeNotified EXCEPT ![r] = @ \cup {side}]
    /\ last' = Event("close", r, relay[r].unauthMsg, 0, "none")
    /\ UNCHANGED <<cfgVars, now, exited, nRelays, started, creating, pendingReplay,
                   sendVars, stateVars, cbVars, lsnVars, tokVars>>

(***************************************************************************)
(* OAuthProxyServer (src/src/proxy/oauth-proxy-server.ts, lines 196-415)   *)
(***************************************************************************)

\* A stop() without the test of isRunning.
stopUnguarded(lsn) == [lsn EXCEPT !.phase = "closing"]

\* resetShutdownTimer: a timer of five seconds that calls stop() is set.
resetShutdownTimer(lsn) == [lsn EXCEPT !.shutdownTimeout = TRUE]

\* A stop() that never calls server.close().
stopIgnored(lsn) == lsn

\* stop(): server.close() is called if the listener is running; its callback
\* (CloseDone) runs later.
stop(lsn) == IF lsn.phase = "running" THEN [lsn EXCEPT !.phase = "closing"] ELSE lsn

\* A handler that answers every unverified state with the error page.
CallbackPageError(s, completed) == "error"

\* Lines 277-303: the page a callback gets whose state does not verify.
CallbackPage(s, completed) ==
    IF s \in completed THEN "success-already" ELSE "error"

TotalInAuth ==
    LET RECURSIVE Sum(_)
        Sum(S) == IF S = {} THEN 0
                  ELSE LET x == CHOOSE y \in S : TRUE
                       IN inAuth[x[1]][x[2]] + Sum(S \ {x})
    IN Sum(States \X Listeners)

\* The 'error' handler of ensureServerRunning for an error whose code is
\* EADDRINUSE: it takes a port from getAuthAvailablePort() and calls
\* server.listen() again.  The handler is registered with on(), so it runs
\* for every such error of the server.
ListenError(l, ephemeral) ==
    /\ ~exited
    /\ listener[l].phase = "starting"
    /\ listener[l].listens <= budget.bindErrors
    /\ ephemeral # listener[l].port
    /\ listener' = [listener EXCEPT ![l].listens = @ + 1,
                                    ![l].port = ephemeral]
    /\ last' = [Event("listen-again", NoRelay, NoMsg, 0, "none") EXCEPT
                    !.port = ephemeral]
    /\ UNCHANGED <<cfgVars, now, closeVars, exited, relayVars, sendVars,
                   stateVars, cbVars, oauthProxy, nListeners, tokVars>>

\* The listen callback of ensureServerRunning: isRunning = true, the
\* absolute timeout is armed, the promise resolves.  A setup() that awaits
\* this listener resumes: lines 71-72 of ProxyClient.setup.
ListenDone(l) ==
    /\ ~exited
    /\ listener[l].phase = "starting"
    /\ listener' = [listener EXCEPT ![l].phase = "running"]
    /\ IF pendingReplay.listener = l
       THEN LET r == pendingReplay.relay
                m == pendingReplay.msg
            IN /\ inflight' = SendIssued(inflight, r, m)
               /\ sentCount' = [sentCount EXCEPT ![m] = @ + 1]
               /\ attempts' = [attempts EXCEPT ![r][m] = @ + 1]
               /\ replays' = ReplayIssued(replays, r, m)
               /\ relay' = [relay EXCEPT ![r] = ReplayClears(relay[r])]
               /\ pendingReplay' = NoReplay
               /\ last' = Event("replay", r, m, 0, "none")
       ELSE /\ last' = Event("listening", NoRelay, NoMsg, 0, "none")
            /\ UNCHANGED <<inflight, sentCount, attempts, replays, relay,
                           pendingReplay>>
    /\ UNCHANGED <<cfgVars, now, closeVars, exited, nRelays, proxyInstances, started, creating,
                   nextMsg, clientName, stateVars, cbVars, oauthProxy, nListeners, tokVars>>

\* The callback of server.close() in stop().
CloseDone(l) ==
    /\ ~exited
    /\ listener[l].phase = "closing"
    /\ listener' = [listener EXCEPT ![l].phase = "stopped"]
    /\ globalStateStoreCompleted' = {}
    /\ oauthProxy' = NoListener
    /\ last' = Event("stopped", NoRelay, NoMsg, 0, "none")
    /\ UNCHANGED <<cfgVars, now, closeVars, exited, relayVars, sendVars, globalStateStore,
                   stateUrl, stateTimestamp, nextState, cbVars, nListeners,
                   tokVars>>

\* A timer whose callback does not call stop().
TimerFiresIdle(l) ==
    /\ ~exited
    /\ listener[l].phase = "running"
    /\ last' = Event("timer", NoRelay, NoMsg, 0, "none")
    /\ UNCHANGED <<cfgVars, now, closeVars, exited, relayVars, sendVars,
                   stateVars, cbVars, lsnVars, tokVars>>

\* A timer that calls stop() fires: the absolute timeout armed by the listen
\* callback (lines 379-384) is pending whenever the listener runs; the
\* timers of lines 266-268 and 342-347 (resetShutdownTimer) do the same when
\* they fire.
TimerFires(l) ==
    /\ ~exited
    /\ listener[l].phase = "running"
    /\ listener' = [listener EXCEPT ![l] = stop(@)]
    /\ last' = Event("timer", NoRelay, NoMsg, 0, "none")
    /\ UNCHANGED <<cfgVars, now, closeVars, exited, relayVars, sendVars, stateVars, cbVars,
                   oauthProxy, nListeners, tokVars>>

\* GET /callback?error=...: lines 242-253.
CallbackWithError(l) ==
    /\ ~exited
    /\ budget.faults
    /\ listener[l].phase = "running"
    /\ nCallbacks < budget.callbacks
    /\ nCallbacks' = nCallbacks + 1
    /\ listener' = [listener EXCEPT ![l] = stop(@)]
    /\ last' = Event("callback-error", NoRelay, NoMsg, 0, "error")
    /\ UNCHANGED <<cfgVars, now, closeVars, exited, relayVars, sendVars, stateVars, inAuth, finishCalls, emits,
                   oauthProxy, nListeners, tokVars>>

\* GET /callback without state or without code: lines 255-270.  The error
\* page is sent and a timer that calls stop() is armed (see TimerFires).
CallbackMissingParams(l) ==
    /\ ~exited
    /\ budget.faults
    /\ listener[l].phase = "running"
    /\ nCallbacks < budget.callbacks
    /\ nCallbacks' = nCallbacks + 1
    /\ last' = Event("callback-missing", NoRelay, NoMsg, 0, "error")
    /\ UNCHANGED <<cfgVars, now, closeVars, exited, relayVars, sendVars, stateVars, inAuth, finishCalls, emits,
                   lsnVars, tokVars>>

\* GET /callback?code=..&state=s where verifyOAuthState(s) fails: lines
\* 277-303.  s = 0 is a token that was never issued.  (The second stop() of
\* lines 300-301 finds the listener no longer running.)
CallbackUnverified(l, s) ==
    /\ ~exited
    /\ budget.faults
    /\ listener[l].phase = "running"
    /\ nCallbacks < budget.callbacks
    /\ nCallbacks' = nCallbacks + 1
    /\ s \in 0..nextState
    /\ ~verifyOAuthState(s)
    /\ globalStateStore' = verifyOAuthStateStore(s)
    /\ listener' = [listener EXCEPT ![l] = stop(@)]
    /\ last' = Event("callback-unverified", NoRelay, NoMsg, s,
                     CallbackPage(s, globalStateStoreCompleted))
    /\ UNCHANGED <<cfgVars, now, closeVars, exited, relayVars, sendVars,
                   globalStateStoreCompleted, stateUrl, stateTimestamp,
                   nextState, inAuth, finishCalls, emits, oauthProxy,
                   nListeners, tokVars>>

\* GET /callback?code=..&state=s where verifyOAuthState(s) holds: lines
\* 305-309, up to the await on finishAuth(code).
CallbackVerified(l, s) ==
    /\ ~exited
    /\ listener[l].phase = "running"
    /\ s \in 1..nextState
    /\ verifyOAuthState(s)
    /\ TotalInAuth < budget.inAuth
    /\ nCallbacks < budget.callbacks
    /\ nCallbacks' = nCallbacks + 1
    /\ inAuth' = [inAuth EXCEPT ![s][l] = @ + 1]
    /\ finishCalls' = [finishCalls EXCEPT ![s] = @ + 1]
    /\ last' = Event("finishAuth", listener[l].owner, NoMsg, s, "none")
    /\ UNCHANGED <<cfgVars, now, closeVars, exited, relayVars, sendVars, stateVars, emits,
                   lsnVars, tokVars>>

\* finishAuth(code) resolved: the SDK has exchanged the code and called
\* saveTokens on the provider of the listener's clientTransport.  Lines
\* 310-321, with the oauth-success handler of startProxyServer (part_002,
\* lines 357-375) that emit() runs, and with the setup() that handler calls.
FinishAuthResolved(l, s, rt) ==
    LET u == Normalize(relay[listener[l].owner].url)
        rl == saveTokensRelay(relay, proxyInstances, tokenStore, u, Token(rt))
        saved == saveTokensWrites(relay, proxyInstances, tokenStore, u,
                                  Token(rt))
        url == stateUrl[s]
    IN
    /\ ~exited
    /\ inAuth[s][l] > 0
    /\ rt \in budget.grants
    /\ inAuth' = [inAuth EXCEPT ![s][l] = @ - 1]
    /\ tokenStore' =
           saveTokensStore(relay, proxyInstances, tokenStore, u, Token(rt))
    /\ sameReturns' = saveTokensReturns(sameReturns, tokenStore, u, Token(rt))
    /\ globalStateStoreCompleted' = globalStateStoreCompleted \cup {s}
    /\ globalStateStore' = globalStateStore \ {s}
    /\ emits' = [emits EXCEPT ![s] = @ + 1]
    /\ IF \E c \in servers : hashUrl(c) = hashUrl(url)
       THEN Setup(url, rl,
                  [Event("oauth-success", NoRelay, NoMsg, s, "success")
                   EXCEPT !.saved = saved])
       ELSE /\ exited' = TRUE
            /\ relay' = rl
            /\ last' = [Event("exit-config", NoRelay, NoMsg, s, "none")
                        EXCEPT !.saved = saved]
            /\ UNCHANGED <<nRelays, proxyInstances, creating, pendingReplay,
                           sendVars, lsnVars>>
    /\ UNCHANGED <<cfgVars, now, closeVars, started, stateUrl, stateTimestamp, nextState,
                   finishCalls,
                   nCallbacks, nRefresh>>

\* finishAuth(code) rejected: the catch of the handler, lines 322-333.
FinishAuthRejected(l, s) ==
    /\ ~exited
    /\ budget.faults
    /\ inAuth[s][l] > 0
    /\ inAuth' = [inAuth EXCEPT ![s][l] = @ - 1]
    /\ listener' = [listener EXCEPT ![l] = stop(resetShutdownTimer(@))]
    /\ last' = Event("finishAuth-rejected", NoRelay, NoMsg, s, "error")
    /\ UNCHANGED <<cfgVars, now, closeVars, exited, relayVars, sendVars, stateVars,
                   finishCalls, emits, nCallbacks, oauthProxy, nListeners,
                   tokVars>>

\* The relays cleanupOnExit finds in proxyInstances.
Registered == {proxyInstances[h] : h \in Hashes} \ {NoRelay}

\* cleanupOnExit, up to its first await: close() on the client-side and then
\* on the server-side transport of every registered relay (each runs the
\* transport's onclose), the registries cleared, stop() on the listener.
\* (No token of the model is expired, so cleanExpiredTokens removes none.)
CleanupOnExit ==
    LET cleaned(r) ==
            LET n1 == CloseNotification(relay[r], closeCalls[r], "client")
            IN CloseNotification(n1.rel, n1.calls, "server")
    IN
    /\ relay' = [r \in Relays |->
                    IF r \in Registered THEN cleaned(r).rel ELSE relay[r]]
    /\ closeCalls' = [r \in Relays |->
                    IF r \in Registered THEN cleaned(r).calls
                    ELSE closeCalls[r]]
    /\ closeNotified' = [r \in Relays |->
                    IF r \in Registered THEN Sides ELSE closeNotified[r]]
    /\ proxyInstances' = [h \in Hashes |-> NoRelay]
    /\ globalStateStore' = {}
    /\ globalStateStoreCompleted' = {}
    /\ listener' = IF oauthProxy = NoListener THEN listener
                   ELSE [listener EXCEPT ![oauthProxy] = stop(@)]
    /\ UNCHANGED <<cfgVars, now, nRelays, started, creating, pendingReplay,
                   sendVars, stateUrl, stateTimestamp, nextState, cbVars,
                   oauthProxy, nListeners, tokVars>>

\* SIGINT or SIGTERM: cleanupOnExit(), then process.exit(0).
ProcessOnSignal ==
    /\ ~exited
    /\ budget.closes > 0
    /\ started # {}
    /\ CleanupOnExit
    /\ exited' = TRUE
    /\ last' = Event("signal", NoRelay, NoMsg, 0, "none")

\* The handler of the 'exit' event, which process.exit() emits.
ProcessOnExit ==
    /\ exited
    /\ \/ Registered # {}
       \/ globalStateStore # {}
       \/ globalStateStoreCompleted # {}
       \/ oauthProxy # NoListener /\ listener[oauthProxy].phase = "running"
    /\ CleanupOnExit
    /\ UNCHANGED exited
    /\ last' = Event("cleanup", NoRelay, NoMsg, 0, "none")

\* Time passes.
Tick ==
    /\ ~exited
    /\ now < budget.ticks * ClockStep
    /\ now' = now + ClockStep
    /\ last' = Event("tick", NoRelay, NoMsg, 0, "none")
    /\ UNCHANGED <<cfgVars, exited, relayVars, closeVars, sendVars, stateVars,
                   cbVars, lsnVars, tokVars>>

Next ==
    \/ Tick
    \/ ProcessOnSignal
    \/ ProcessOnExit
    \/ \E u \in ConfigUrls : Main(u)
    \/ \E u \in ConfigUrls, clientInfoPort \in {NoPort, ClientInfoPort},
          bound \in SUBSET KnownPorts, ephemeral \in EphemeralPorts :
          SetupRegister(u, clientInfoPort, bound, ephemeral)
    \/ \E r \in Relays : ClientMessage(r)
    \/ \E r \in Relays, m \in Msgs : SendResolved(r, m)
    \/ \E r \in Relays, m \in Msgs, k \in ErrorKinds : SendRejected(r, m, k)
    \/ \E r \in Relays, m \in Msgs, rt \in RefreshTokens \cup {NoRefresh} :
          SdkRefreshTokens(r, m, rt)
    \/ \E r \in Relays, side \in {"client", "server"} : TransportOnClose(r, side)
    \/ \E l \in Listeners, ephemeral \in EphemeralPorts :
          ListenError(l, ephemeral)
    \/ \E l \in Listeners : ListenDone(l)
    \/ \E l \in Listeners : CloseDone(l)
    \/ \E l \in Listeners : TimerFires(l)
    \/ \E l \in Listeners : CallbackWithError(l)
    \/ \E l \in Listeners : CallbackMissingParams(l)
    \/ \E l \in Listeners, s \in 0..MaxStates : CallbackUnverified(l, s)
    \/ \E l \in Listeners, s \in States : CallbackVerified(l, s)
    \/ \E l \in Listeners, s \in States, rt \in RefreshTokens \cup {NoRefresh} :
          FinishAuthResolved(l, s, rt)
    \/ \E l \in Listeners, s \in States : FinishAuthRejected(l, s)

Spec == Init /\ [][Next]_vars

\* The timer of a running listener fires (the event loop runs a timer that
\* is due), and the close callback of a closing HTTP server runs (its
\* connections end).
LiveSpec ==
    /\ Init
    /\ [][Next]_vars
    /\ \A l \in Listeners : WF_vars(TimerFires(l)) /\ WF_vars(CloseDone(l))

(***************************************************************************)
(* Properties: parked messages and their replay                            *)
(***************************************************************************)

\* This step emits oauth-success for the state token s and runs the handler.
Emitted(s) == emits'[s] = emits[s] + 1

\* The relay registered under the hash of the url recorded with state s.
RelayOfState(s) == proxyInstances[hashUrl(stateUrl[s])]

\* This step calls send(m) on the remote transport of relay r, once, and
\* issues no other send.
OneSend(r, m) ==
    /\ sentCount' = [sentCount EXCEPT ![m] = @ + 1]
    /\ inflight' = [inflight EXCEPT ![r][m] = @ + 1]

C2_ParkedNeverLost ==
    [][\A r \in Relays :
          (/\ relay[r].unauthMsg # NoMsg
           /\ relay'[r].unauthMsg # relay[r].unauthMsg) =>
              \/ sentCount'[relay[r].unauthMsg] =
                     sentCount[relay[r].unauthMsg] + 1
              \/ IsClosed(relay'[r])
              \/ exited']_vars

\* C3: for every url hash at most one relay exists that has not closed.
C3_OneRelayPerHash ==
    \A h \in Hashes :
        Cardinality({r \in Relays : /\ relay[r].exists
                                    /\ ~IsClosed(relay[r])
                                    /\ hashUrl(relay[r].url) = h}) <= 1

(***************************************************************************)
(* Properties: the retry counters                                          *)
(***************************************************************************)

\* C4: on a live relay the retry counter and the refresh-retry counter are
\* each at most unauthRetries.
C4_CountersBounded ==
    \A r \in Relays :
        (relay[r].exists /\ ~IsClosed(relay[r])) =>
            /\ relay[r].retry <= unauthRetries
            /\ relay[r].refreshRetry <= unauthRetries

\* C5: a message is sent to the remote transport at most unauthRetries + 1
\* times, counting from the last send of its relay that resolved.
C5_SendsBounded ==
    \A r \in Relays, m \in Msgs : attempts[r][m] <= unauthRetries + 1

\* C6: a send that fails with an authorization error, no static
\* Authorization header configured, adds exactly one to the retry counter
\* and, the counter not above unauthRetries, leaves the message parked.
C6_CountsAndParks ==
    [][\A r \in Relays, m \in Msgs, k \in ErrorKinds :
          (SendRejected(r, m, k) /\ IsAuthorizationError(k) /\ ~staticAuth) =>
              /\ relay'[r].retry = relay[r].retry + 1
              /\ relay'[r].retry <= unauthRetries =>
                     relay'[r].unauthMsg = m]_vars

\* A second authorization failure on a relay has just been counted and its
\* message parked.
C6_Counted ==
    /\ last.op = "unauthorized"
    /\ relay[last.relay].retry = 2
    /\ relay[last.relay].unauthMsg = last.msg

\* C7: a send that fails with an authorization error when the retry counter
\* has reached unauthRetries (the increment takes it past the maximum)
\* terminates the process and leaves the parked slot as it was.
C7_ExceededTerminates ==
    [][\A r \in Relays, m \in Msgs, k \in ErrorKinds :
          (/\ SendRejected(r, m, k)
           /\ IsAuthorizationError(k)
           /\ ~staticAuth
           /\ relay[r].retry >= unauthRetries) =>
              /\ exited'
              /\ relay'[r].unauthMsg = relay[r].unauthMsg]_vars

\* C8: when a send resolves, both counters of its relay read 0.
C8_ResolvedResetsCounters ==
    [][\A r \in Relays, m \in Msgs :
          SendResolved(r, m) =>
              relay'[r].retry = 0 /\ relay'[r].refreshRetry = 0]_vars

\* A send has just resolved on a relay both counters of which were not 0.
C8_Reset ==
    /\ last.op = "resolved"
    /\ last.retry > 0
    /\ last.refreshRetry > 0
    /\ relay[last.relay].retry = 0
    /\ relay[last.relay].refreshRetry = 0

\* C9: with a static Authorization header, a send that fails with an
\* authorization error terminates the process, and in the whole run no
\* message is parked, no retry is counted, no state token is issued and no
\* listener is created.
C9_StaticHeaderExits ==
    [][staticAuth =>
          /\ \A r \in Relays, m \in Msgs, k \in ErrorKinds :
                (SendRejected(r, m, k) /\ IsAuthorizationError(k)) => exited'
          /\ \A r \in Relays :
                relay'[r].unauthMsg = NoMsg /\ relay'[r].retry = 0
          /\ nextState' = 0
          /\ globalStateStore' = {}
          /\ nListeners' = 0
          /\ oauthProxy' = NoListener]_vars

\* With a static header, an authorization failure has just ended the process.
C9_Exited ==
    /\ staticAuth
    /\ last.op = "exit-static"
    /\ exited
    /\ relay[last.relay].retry = 0
    /\ relay[last.relay].unauthMsg = NoMsg

(***************************************************************************)
(* Properties: the callback listener                                       *)
(***************************************************************************)

\* C10: a callback (code and state present) whose state is not in the
\* in-flight registry but is in the completed registry is answered with the
\* "already authenticated" success page; it neither invokes finishAuth nor
\* emits oauth-success.
C10_CompletedStateAnswered ==
    [][\A l \in Listeners, s \in 0..MaxStates :
          (CallbackUnverified(l, s) /\ s \in globalStateStoreCompleted) =>
              /\ last'.page = "success-already"
              /\ UNCHANGED <<inAuth, finishCalls, emits>>]_vars

\* A callback has just come a second time for a state that completed.
C10_Revisited ==
    /\ last.op = "callback-unverified"
    /\ last.page = "success-already"
    /\ last.state \in globalStateStoreCompleted
    /\ finishCalls[last.state] = 1
    /\ emits[last.state] = 1

\* The age of state token s, in milliseconds, at the current reading of the
\* clock.
Age(s) == now - stateTimestamp[s]

\* C11: finishAuth is invoked only by a callback whose state is in the
\* in-flight registry and at most maxAge old at that moment, oauth-success
\* is emitted only when such an invocation returns, and a callback with an
\* error parameter, without state or code, or with an unknown or expired
\* state neither invokes finishAuth nor emits oauth-success.
C11_OnlyValidStateFinishes ==
    [][/\ \A s \in States :
             finishCalls'[s] # finishCalls[s] =>
                 /\ s \in globalStateStore
                 /\ Age(s) <= maxAge
                 /\ finishCalls'[s] = finishCalls[s] + 1
                 /\ \E l \in Listeners : inAuth'[s][l] = inAuth[s][l] + 1
       /\ \A s \in States :
             emits'[s] # emits[s] =>
                 /\ \E l \in Listeners :
                        inAuth[s][l] > 0 /\ inAuth'[s][l] = inAuth[s][l] - 1
                 /\ emits'[s] = emits[s] + 1
                 /\ emits'[s] <= finishCalls'[s]
       /\ \A l \in Listeners, s \in 0..MaxStates :
             \/ CallbackWithError(l)
             \/ CallbackMissingParams(l)
             \/ CallbackUnverified(l, s)
             => UNCHANGED <<inAuth, finishCalls, emits>>]_vars

\* A callback has just been refused because its state had expired, after
\* the callback of a valid state had led to oauth-success.
C11_ExpiredRefusedAfterSuccess ==
    /\ last.op = "callback-unverified"
    /\ last.state \in States
    /\ Age(last.state) > maxAge
    /\ finishCalls[last.state] = 0
    /\ \E s \in States : finishCalls[s] = 1 /\ emits[s] = 1

\* C12: verifyOAuthState rejects an entry of the in-flight registry older
\* than maxAge and removes it from the registry; it accepts an entry that is
\* present and at most maxAge old, and leaves it in the registry.
C12_ExpiredRejectedAndRemoved ==
    [][\A l \in Listeners, s \in States :
          /\ (s \in globalStateStore /\ Age(s) > maxAge) =>
                 /\ ~CallbackVerified(l, s)
                 /\ CallbackUnverified(l, s) => s \notin globalStateStore'
          /\ (s \in globalStateStore /\ Age(s) <= maxAge) =>
                 /\ ~CallbackUnverified(l, s)
                 /\ CallbackVerified(l, s) =>
                        /\ s \in globalStateStore'
                        /\ finishCalls'[s] = finishCalls[s] + 1]_vars

\* A callback has just been refused for a state that was never completed and
\* had passed the maximum age, and the state is no longer in the registry.
C12_ExpiredRemoved ==
    /\ last.op = "callback-unverified"
    /\ last.state \in States
    /\ last.state <= nextState
    /\ finishCalls[last.state] = 0
    /\ Age(last.state) > maxAge
    /\ last.state \notin globalStateStore
    /\ last.page = "error"

\* C13: a callback that carries an error parameter is answered with the
\* failure page, invokes finishAuth for no state and emits no oauth-success,
\* leaves the in-flight registry, every parked message, both counters of
\* every relay and the stored tokens unchanged, and makes the listener stop.
C13_ErrorCallbackOnlyStops ==
    [][\A l \in Listeners :
          CallbackWithError(l) =>
              /\ last'.page = "error"
              /\ UNCHANGED <<inAuth, finishCalls, emits>>
              /\ UNCHANGED <<globalStateStore, stateUrl, stateTimestamp>>
              /\ UNCHANGED <<relay, proxyInstances, tokenStore>>
              /\ ~exited'
              /\ listener'[l].phase = "closing"]_vars

\* A callback with an error parameter has just been answered while a state
\* was in flight and its message parked; the listener is closing.
C13_ErrorAnswered ==
    /\ last.op = "callback-error"
    /\ last.page = "error"
    /\ globalStateStore # {}
    /\ \E r \in Relays : relay[r].unauthMsg # NoMsg /\ relay[r].retry > 0
    /\ \E l \in Listeners : listener[l].phase = "closing"

\* State token s is in the in-flight registry and verifyOAuthState would
\* accept it now.
StillValid(s) == s \in globalStateStore /\ Age(s) <= maxAge

\* C14: a callback protocol error (error parameter, missing state or code,
\* unknown or expired state) ends only its own attempt: the process keeps
\* running, and every other state that is still valid stays in the in-flight
\* registry with the listener still there to receive its callback.  (A
\* callback without a state belongs to one attempt at most: it is held to
\* this when two states or more are in flight.)
C14_ErrorEndsOnlyItsAttempt ==
    [][\A l \in Listeners, s0 \in 0..MaxStates :
          \/ /\ CallbackWithError(l) \/ CallbackMissingParams(l)
             /\ s0 = 0
             /\ Cardinality(globalStateStore) >= 2
          \/ CallbackUnverified(l, s0)
          => /\ ~exited'
             /\ \A s \in States \ {s0} :
                   StillValid(s) =>
                       /\ s \in globalStateStore'
                       /\ listener'[l].phase = "running"]_vars

(***************************************************************************)
(* Properties: transport closure                                           *)
(***************************************************************************)

\* C15: whichever order the two transports of a relay close in, the relay
\* calls close() exactly once on the side that did not close first, and
\* makes no other close() call on either transport.
C15_ClosesOtherSideOnce ==
    \A r \in Relays :
        /\ ~(relay[r].transportToClientClosed /\ relay[r].transportToServerClosed)
        /\ relay[r].transportToClientClosed =>
               closeCalls[r] = [client |-> 0, server |-> 1]
        /\ relay[r].transportToServerClosed =>
               closeCalls[r] = [client |-> 1, server |-> 0]
        /\ (closeNotified[r] # {}) = IsClosed(relay[r])
        /\ ~IsClosed(relay[r]) => closeCalls[r] = [client |-> 0, server |-> 0]

\* The server-side transport of a relay closed first and then the
\* client-side transport closed too: the relay has called close() once, on
\* the client side.
C15_BothSidesClosed ==
    /\ last.op = "close"
    /\ relay[last.relay].transportToServerClosed
    /\ closeNotified[last.relay] = Sides
    /\ closeCalls[last.relay] = [client |-> 1, server |-> 0]

\* C16: when the onclose handler of either transport of a relay has run, no
\* relay is registered under the hash of its url and its parked slot is
\* empty; so it is after cleanupOnExit has closed the transports.
C16_CloseDeregistersAndClears ==
    [][/\ \A r \in Relays, side \in Sides :
             TransportOnClose(r, side) =>
                 /\ proxyInstances'[hashUrl(relay[r].url)] = NoRelay
                 /\ relay'[r].unauthMsg = NoMsg
       /\ \A r \in Relays :
             (closeNotified'[r] # closeNotified[r]) =>
                 /\ proxyInstances'[hashUrl(relay[r].url)] = NoRelay
                 /\ relay'[r].unauthMsg = NoMsg]_vars

\* A transport of a registered relay that held a parked message has just
\* closed.
C16_ClosedWhileParked ==
    /\ last.op = "close"
    /\ last.msg # NoMsg
    /\ Cardinality(closeNotified[last.relay]) = 1
    /\ relay[last.relay].unauthMsg = NoMsg
    /\ proxyInstances[hashUrl(relay[last.relay].url)] = NoRelay

(***************************************************************************)
(* Properties: the life of the callback listener                           *)
(***************************************************************************)

\* The listeners that hold the port or are about to: created and not yet
\* closed.
Active == {l \in Listeners :
              listener[l].phase \in {"starting", "running", "closing"}}

\* C17: at most one callback listener is active at any time (being bound,
\* running or closing), and it is the one DefaultAuthProvider.oauthProxy
\* refers to.
C17_OneListener ==
    /\ Cardinality(Active) <= 1
    /\ \A l \in Active : oauthProxy = l
    /\ oauthProxy # NoListener => oauthProxy \in Active

\* A second authorization has just called startProxyServer() while the
\* listener of the first was there, and no second listener was created.
C17_ListenerShared ==
    /\ last.op = "unauthorized"
    /\ nextState = 2
    /\ nListeners = 1
    /\ oauthProxy = 1
    /\ listener[1].phase \in {"running", "closing"}

\* C18: a listener that is running stops in the end, callbacks or none,
\* unless the process terminates first.
C18_RunningListenerStops ==
    \A l \in Listeners :
        [](listener[l].phase = "running" =>
               <>(listener[l].phase = "stopped" \/ exited))

\* A listener that received no callback has stopped.
C18_StoppedWithoutCallback ==
    /\ last.op = "stopped"
    /\ nCallbacks = 0
    /\ listener[1].phase = "stopped"
    /\ oauthProxy = NoListener
    /\ ~exited

\* This step is the /callback handler of listener l running to its end.
\* (A request without state or code sets a timer of 250 seconds, which is
\* neither the window of seconds nor the absolute timeout: it is left out.)
CallbackHandled(l) ==
    \/ CallbackWithError(l)
    \/ \E s \in 0..MaxStates : CallbackUnverified(l, s)
    \/ \E s \in States : FinishAuthRejected(l, s)
    \/ \E s \in States, rt \in RefreshTokens \cup {NoRefresh} :
          FinishAuthResolved(l, s, rt)

\* C19: when a callback has been handled, whatever its outcome, the
\* listener is stopping or the timer of seconds that stops it is set.
C19_StopsSoonAfterCallback ==
    [][\A l \in Listeners :
          (CallbackHandled(l) /\ ~exited') =>
              \/ listener'[l].phase # "running"
              \/ listener'[l].shutdownTimeout]_vars

\* C20: when the close callback of stop() has run the completed registry is
\* empty, DefaultAuthProvider.oauthProxy is null and the listener is not
\* running; a startProxyServer() that finds oauthProxy null creates a
\* listener and binds it; stop() on a listener that is not running changes
\* nothing.
C20_StopReleasesListener ==
    [][/\ \A l \in Listeners :
             CloseDone(l) =>
                 /\ globalStateStoreCompleted' = {}
                 /\ oauthProxy' = NoListener
                 /\ listener'[l].phase = "stopped"
       /\ \A r \in Relays, m \in Msgs, k \in ErrorKinds :
             (/\ SendRejected(r, m, k)
              /\ nextState' # nextState
              /\ oauthProxy = NoListener) =>
                 /\ nListeners' = nListeners + 1
                 /\ oauthProxy' = nListeners'
                 /\ listener'[oauthProxy'].phase = "starting"
       /\ \A l \in Listeners, s \in States :
             (FinishAuthRejected(l, s)
              /\ listener[l].phase \notin {"running", "closing"}) =>
                 /\ listener'[l].phase = listener[l].phase
                 /\ UNCHANGED <<oauthProxy, globalStateStoreCompleted>>]_vars

\* A listener has stopped, a later authorization has created the next one,
\* and a stop() has just been called on the stopped one.
C20_StoppedThenNew ==
    /\ last.op = "finishAuth-rejected"
    /\ listener[1].phase = "stopped"
    /\ oauthProxy = 2
    /\ listener[2].phase \in {"starting", "running"}

(***************************************************************************)
(* Properties: token refresh                                               *)
(***************************************************************************)

\* This step calls saveTokens(tokens) on the provider of url u.
SavesTokens(u, tokens) ==
    \/ /\ nRefresh' # nRefresh
       /\ \E r \in Relays, m \in Msgs :
              /\ u = Normalize(relay[r].url)
              /\ SdkRefreshTokens(r, m, tokens.refresh_token)
    \/ /\ emits' # emits
       /\ \E l \in Listeners, s \in States :
              /\ inAuth[s][l] > 0
              /\ u = Normalize(relay[listener[l].owner].url)
              /\ FinishAuthResolved(l, s, tokens.refresh_token)

\* This step is a saveTokens(tokens) of the provider of url u that finds the
\* incoming refresh token equal to the stored one and relay r registered
\* under the hash of u: it calls validateRefTokenUnauth on r.
Disambiguates(r, u, tokens) ==
    /\ r # NoRelay
    /\ proxyInstances[hashUrl(u)] = r
    /\ SameRefreshToken(tokenStore[u], tokens)
    /\ SavesTokens(u, tokens)

\* C21: validateRefTokenUnauth with the refresh-retry counter above zero on
\* entry deletes the stored Token Record and leaves the counter at 0; with
\* the counter at zero on entry it leaves the record and sets the counter
\* to 1.
C21_ValidateResetsOrCounts ==
    [][\A r \in Relays, u \in AllUrls, rt \in RefreshTokens :
          Disambiguates(r, u, Token(rt)) =>
              IF relay[r].refreshRetry > 0
              THEN /\ relay'[r].refreshRetry = 0
                   /\ tokenStore'[u] # tokenStore[u]
              ELSE /\ relay'[r].refreshRetry = 1
                   /\ tokenStore'[u] = tokenStore[u]]_vars

\* C22: saveTokens writes the tokens when their refresh token differs from
\* the stored one or nothing is stored; when it is the stored one, the
\* tokens are written if and only if the refresh-retry counter of the relay
\* reads zero after validateRefTokenUnauth, and what is stored is otherwise
\* kept or deleted, never replaced.
C22_SavesUnlessSameRefreshToken ==
    [][\A u \in AllUrls, rt \in RefreshTokens \cup {NoRefresh} :
          SavesTokens(u, Token(rt)) =>
              LET r == proxyInstances[hashUrl(u)] IN
              IF SameRefreshToken(tokenStore[u], Token(rt))
              THEN /\ last'.saved =
                          (r # NoRelay /\ relay'[r].refreshRetry = 0)
                   /\ ~last'.saved =>
                          tokenStore'[u] \in {tokenStore[u], NoToken}
              ELSE /\ last'.saved
                   /\ tokenStore'[u] = saveToken(Token(rt))]_vars

\* The token endpoint has just returned the stored refresh token: the
\* counter reads 1, nothing was written and the stored record is in place.
C22_SameTokenNotWritten ==
    /\ last.op = "saveTokens"
    /\ ~last.saved
    /\ relay[last.relay].refreshRetry = 1
    /\ tokenStore[Normalize(relay[last.relay].url)].present

\* C23: when saveTokens receives the stored refresh token for the second
\* time in a row, no send of the server having resolved in between, the
\* stored Token Record is absent after the call.
C23_SecondSameTokenDeletes ==
    [][\A u \in AllUrls, rt \in RefreshTokens :
          (/\ SavesTokens(u, Token(rt))
           /\ SameRefreshToken(tokenStore[u], Token(rt))
           /\ sameReturns[u] >= 1) =>
              tokenStore'[u] = NoToken]_vars

(***************************************************************************)
(* Properties: order of sends                                              *)
(***************************************************************************)

\* C24: while a message is parked in a relay, the relay sends no later
\* client message to the remote transport.
C24_ParkedSuspendsSends ==
    [][\A r \in Relays :
          (relay[r].unauthMsg # NoMsg /\ ~IsClosed(relay[r])) =>
              ~ClientMessage(r)]_vars

(***************************************************************************)
(* Properties: the callback port                                           *)
(***************************************************************************)

\* C25: the provider's callback port is the configured port if one is
\* configured and unbound, else the recorded port of the client info file
\* if there is one and it is unbound, else an ephemeral port, for every
\* combination of configured or not, recorded or not, bound or not.
C25_PortByPreference ==
    [][\A u \in ConfigUrls, clientInfoPort \in {NoPort, ClientInfoPort},
          bound \in SUBSET KnownPorts, ephemeral \in EphemeralPorts :
          SetupRegister(u, clientInfoPort, bound, ephemeral) =>
              last'.port =
                  IF budget.port # NoPort /\ budget.port \notin bound
                  THEN budget.port
                  ELSE IF clientInfoPort # NoPort /\ clientInfoPort \notin bound
                  THEN clientInfoPort
                  ELSE ephemeral]_vars

(***************************************************************************)
(* Properties: the stored tokens                                           *)
(***************************************************************************)

\* C26: tokens() returns the stored Token Record without its creation
\* timestamp if and only if the record has a non-empty access token and a
\* token type; for an absent record, a missing or empty access token or a
\* missing token type it returns undefined.
C26_UsableTokensOnly ==
    [][\A r \in Relays :
          ClientMessage(r) =>
              LET stored == tokenStore[Normalize(relay[r].url)] IN
              last'.tokens =
                  IF /\ stored.present
                     /\ stored.access_token \notin {NoValue, ""}
                     /\ stored.token_type # NoValue
                  THEN [stored EXCEPT !.createdAt = NoTime]
                  ELSE NoToken]_vars

(***************************************************************************)
(* Properties: replays                                                     *)
(***************************************************************************)

\* C27: a message is replayed at most once for each time it is parked, also
\* when oauth-success is emitted more than once for the server or a replay
\* run is suspended at await startProxyServer() while another one runs.
C27_OneReplayPerPark ==
    \A r \in Relays, m \in Msgs : replays[r][m] <= 1

(***************************************************************************)
(* Properties: the callback handler                                        *)
(***************************************************************************)

\* C28: finishAuth is invoked at most once for any state token, also when a
\* second callback with the same state is verified while the handler of the
\* first is suspended in finishAuth.
C28_FinishAuthOncePerState ==
    \A s \in States : finishCalls[s] <= 1

\* C29: on a callback with a valid state the handler first moves the state
\* entry from the in-flight registry to the completed registry, then calls
\* finishAuth, then emits oauth-success; the entry has been moved when the
\* handler suspends in finishAuth.
C29_MovedBeforeFinishAuth ==
    [][\A l \in Listeners, s \in States :
          /\ CallbackVerified(l, s) =>
                 /\ s \notin globalStateStore'
                 /\ s \in globalStateStoreCompleted'
          /\ emits'[s] > emits[s] =>
                 /\ finishCalls[s] > 0
                 /\ s \in globalStateStoreCompleted']_vars

(***************************************************************************)
(* Properties: binding the listener                                        *)
(***************************************************************************)

\* C30: a listener whose bind fails with 'address in use' tries one more
\* bind on a fresh ephemeral port, and none after that: it calls
\* server.listen() twice at most.
C30_OneBindRetry ==
    \A l \in Listeners : listener[l].listens <= 2

(***************************************************************************)
(* Properties: the two retry counters                                      *)
(***************************************************************************)

\* C31: an authorization failure handled by sendServerTransportMessage
\* changes the retry counter and leaves the refresh-retry counter as it is;
\* validateRefTokenUnauth (run by saveTokens) changes the refresh-retry
\* counter and leaves the retry counter and the parked message as they are.
C31_CountersIndependent ==
    [][/\ \A r \in Relays, m \in Msgs, k \in ErrorKinds :
             (SendRejected(r, m, k) /\ IsAuthorizationError(k) /\ ~exited') =>
                 /\ relay'[r].retry = relay[r].retry + 1
                 /\ relay'[r].refreshRetry = relay[r].refreshRetry
       /\ \A r \in Relays, m \in Msgs, rt \in RefreshTokens \cup {NoRefresh} :
             (nRefresh' # nRefresh /\ SdkRefreshTokens(r, m, rt)) =>
                 \A q \in Relays :
                     /\ relay'[q].retry = relay[q].retry
                     /\ relay'[q].unauthMsg = relay[q].unauthMsg
                     /\ relay'[q].refreshRetry # relay[q].refreshRetry =>
                            /\ q = proxyInstances[hashUrl(Normalize(relay[r].url))]
                            /\ SameRefreshToken(
                                   tokenStore[Normalize(relay[r].url)], Token(rt))
      ]_vars

\* validateRefTokenUnauth has just run on a relay that holds a parked
\* message and has counted an authorization failure.
C31_ValidatedWhileParked ==
    /\ last.op = "saveTokens"
    /\ ~last.saved
    /\ last.relay # NoRelay
    /\ relay[last.relay].refreshRetry = 1
    /\ relay[last.relay].retry > 0
    /\ relay[last.relay].unauthMsg # NoMsg

(***************************************************************************)
(* Properties: the client name                                             *)
(***************************************************************************)

\* C32: whenever send() is called on a remote transport with an initialize
\* request, first send or replay, the client name of the request is the
\* declared name with the suffix appended once; any other message is sent
\* as it came.
C32_MarkedOnce ==
    [][\A m \in Msgs :
          sentCount'[m] > sentCount[m] =>
              clientName'[m] = IF Method(m) = "initialize"
                               THEN DeclaredName \o Marker
                               ELSE DeclaredName]_vars

\* An initialize request has been replayed for the second time.
C32_InitializeReplayedTwice ==
    /\ last.op = "replay"
    /\ Method(last.msg) = "initialize"
    /\ sentCount[last.msg] >= 3

(***************************************************************************)
(* Properties: errors of a send                                            *)
(***************************************************************************)

\* C33: when a send rejects with an error that is not an authorization
\* failure, the message is not sent again and not parked, both retry
\* counters stay as they are, and the connection is closed: the transports
\* of the relay are closed and the relay is deregistered.
C33_OtherErrorCloses ==
    [][\A r \in Relays, m \in Msgs, k \in ErrorKinds :
          (SendRejected(r, m, k) /\ ~IsAuthorizationError(k)) =>
              /\ sentCount' = sentCount
              /\ relay'[r].unauthMsg = relay[r].unauthMsg
              /\ relay'[r].retry = relay[r].retry
              /\ relay'[r].refreshRetry = relay[r].refreshRetry
              /\ IsClosed(relay'[r])
              /\ proxyInstances'[hashUrl(relay[r].url)] # r]_vars

(***************************************************************************)
(* Properties: a failed code exchange                                      *)
(***************************************************************************)

\* C34: when finishAuth fails in the handler of a callback with a valid
\* state, the handler answers with the failure page, emits no
\* oauth-success, records no state as completed, leaves every relay (parked
\* message and both counters) as it is, and shuts the listener down.
C34_FailedExchangeOnlyStops ==
    [][\A l \in Listeners, s \in States :
          FinishAuthRejected(l, s) =>
              /\ last'.page = "error"
              /\ emits' = emits
              /\ globalStateStoreCompleted' = globalStateStoreCompleted
              /\ globalStateStore' = globalStateStore
              /\ relay' = relay
              /\ listener'[l].phase \in {"closing", "stopped"}]_vars

\* A code exchange has just failed while a message is parked: the message
\* is still parked, its failure still counted, the state not completed and
\* the listener is closing.
C34_ExchangeFailedWhileParked ==
    /\ last.op = "finishAuth-rejected"
    /\ last.state \notin globalStateStoreCompleted
    /\ emits[last.state] = 0
    /\ \E r \in Relays : relay[r].unauthMsg # NoMsg /\ relay[r].retry > 0
    /\ \E l \in Listeners : listener[l].phase = "closing"

(***************************************************************************)
(* Properties: the callback address                                        *)
(***************************************************************************)

\* C35: while a listener is running, the port it is bound to is the port of
\* the redirect URI of the provider that started it, also after a bind
\* conflict made it bind again.
C35_BoundPortIsRedirectPort ==
    \A l \in Listeners :
        listener[l].phase = "running" =>
            listener[l].port = relay[listener[l].owner].authPort

(***************************************************************************)
(* Properties: the two registries of state tokens                          *)
(***************************************************************************)

\* C36: after every handler no state token is in both the in-flight and the
\* completed registry, and a state token that enters the completed registry
\* comes from the in-flight registry, in the handler of a callback that
\* verified it.
C36_CompletedFromInFlight ==
    [][/\ globalStateStore' \cap globalStateStoreCompleted' = {}
       /\ \A s \in States :
             (/\ s \in globalStateStoreCompleted'
              /\ s \notin globalStateStoreCompleted) =>
                 /\ s \in globalStateStore
                 /\ s \notin globalStateStore'
                 /\ finishCalls[s] > 0
                 /\ last'.op \in {"oauth-success", "replay", "replay-suspended",
                                  "exit-retries", "exit-config"}
                 /\ last'.state = s]_vars

(***************************************************************************)
(* Properties: several servers                                             *)
(***************************************************************************)

\* C37: a callback whose state was issued for a server invokes finishAuth
\* on the remote transport of a relay of that server (the url recorded with
\* the state), never on the transport of another server's relay.
C37_FinishAuthOnOwnServer ==
    [][\A l \in Listeners, s \in States :
          CallbackVerified(l, s) =>
              /\ last'.relay = listener[l].owner
              /\ Normalize(relay[last'.relay].url) = stateUrl[s]]_vars

(***************************************************************************)
(* Properties: a closed relay                                              *)
(***************************************************************************)

\* C38: once a transport of a relay has closed and the relay is
\* deregistered, its parked-message slot stays empty and its two counters
\* stay as they are, also when a send issued before the close settles.
C38_ClosedRelayFrozen ==
    [][\A r \in Relays :
          (IsClosed(relay[r]) /\ relay[r].unauthMsg = NoMsg) =>
              /\ relay'[r].unauthMsg = NoMsg
              /\ relay'[r].retry = relay[r].retry
              /\ relay'[r].refreshRetry = relay[r].refreshRetry]_vars

(***************************************************************************)
(* Properties: the refresh-retry counter                                   *)
(***************************************************************************)

\* C39: the refresh-retry counter of a relay is 0 or 1; when saveTokens
\* receives the stored refresh token, validateRefTokenUnauth leaves the
\* counter of the registered relay at 1, also when it deletes the Token
\* Record, and the tokens are not written, with or without a registered
\* relay.
C39_SameRefreshTokenNeverWritten ==
    [][/\ \A r \in Relays : relay'[r].refreshRetry \in {0, 1}
       /\ \A u \in AllUrls, rt \in RefreshTokens :
             (/\ SameRefreshToken(tokenStore[u], Token(rt))
              /\ SavesTokens(u, Token(rt))) =>
                 LET r == proxyInstances[hashUrl(u)] IN
                 /\ ~last'.saved
                 /\ tokenStore'[u] \in {tokenStore[u], NoToken}
                 /\ r # NoRelay => relay'[r].refreshRetry = 1]_vars

\* saveTokens has received the stored refresh token for the second time in
\* a row: the Token Record is deleted, the counter reads 1 and nothing was
\* written.
C39_DeletedAndNotWritten ==
    /\ last.op = "saveTokens"
    /\ ~last.saved
    /\ relay[last.relay].refreshRetry = 1
    /\ sameReturns[Normalize(relay[last.relay].url)] = 2
    /\ tokenStore[Normalize(relay[last.relay].url)] = NoToken

\* C40: after the onclose handler of the remote transport of a relay has
\* run, the relay calls send() on that transport no more, for a client
\* message or for a replay.
C40_NoSendAfterServerClose ==
    [][\A r \in Relays, m \in Msgs :
          IsClosed(relay[r]) => inflight'[r][m] <= inflight[r][m]]_vars

====
